---- MODULE Spec2Model ----
(***************************************************************************)
(* Model of init_scripts/transfers.py (sync_transfers) as it is driven by  *)
(* init_scripts/susos.py.                                                  *)
(*                                                                         *)
(* Text is modelled as a tuple of one-character strings, so that slicing   *)
(* (result[3][1:]), startswith, int() and str() are computed and not       *)
(* assumed.  The decimal columns balance and fine are held exactly, as a   *)
(* whole number of 1/UnitsPerEuro euro.                                    *)
(***************************************************************************)
EXTENDS Integers, Sequences, FiniteSets, TLC

VARIABLES
    pc,        \* position of the script: susos.py:21-22, transfers.py:3-33
    source,    \* state of the source cursor (susos_cursor)
    target,    \* calls made on the target handle (sudosos_cursor)
    results,   \* rows returned by source.fetchall()
    i,         \* number of rows the for loop has consumed
    output     \* lines printed on standard output, oldest first

vars == <<pc, source, target, results, i, output>>

----------------------------------------------------------------------------
(* Bounds and program constants                                            *)

MaxRows == 2

LowAccountLimit == 1000

CentsPerEuro == 100

UnitsPerEuro == 1000

----------------------------------------------------------------------------
(* Text                                                                    *)

Digits == {"0", "1", "2", "3", "4", "5", "6", "7", "8", "9"}

DigitVal ==
    "0" :> 0 @@ "1" :> 1 @@ "2" :> 2 @@ "3" :> 3 @@ "4" :> 4 @@
    "5" :> 5 @@ "6" :> 6 @@ "7" :> 7 @@ "8" :> 8 @@ "9" :> 9

DigitChar ==
    0 :> "0" @@ 1 :> "1" @@ 2 :> "2" @@ 3 :> "3" @@ 4 :> "4" @@
    5 :> "5" @@ 6 :> "6" @@ 7 :> "7" @@ 8 :> "8" @@ 9 :> "9"

\* s[1:]  (the empty text stays empty)
DropFirst(s) == IF Len(s) = 0 THEN <<>> ELSE Tail(s)

\* s.startswith(c) for a one-character c
StartsWith(s, c) == Len(s) > 0 /\ s[1] = c

RECURSIVE LStrip(_)
LStrip(s) == IF Len(s) > 0 /\ s[1] = " " THEN LStrip(Tail(s)) ELSE s

RECURSIVE RStrip(_)
RStrip(s) ==
    IF Len(s) > 0 /\ s[Len(s)] = " " THEN RStrip(SubSeq(s, 1, Len(s) - 1)) ELSE s

Strip(s) == RStrip(LStrip(s))

\* the text after the optional sign of a stripped literal
Unsigned(s) ==
    LET t == Strip(s) IN IF Len(t) > 0 /\ t[1] \in {"+", "-"} THEN Tail(t) ELSE t

\* int(s) does not raise: optional blanks, optional sign, digits, with single
\* underscores allowed between digits
ParsesAsInt(s) ==
    LET u == Unsigned(s) IN
        /\ Len(u) > 0
        /\ \A k \in 1..Len(u) : u[k] \in Digits \cup {"_"}
        /\ u[1] \in Digits
        /\ u[Len(u)] \in Digits
        /\ \A k \in 1..(Len(u) - 1) : ~(u[k] = "_" /\ u[k + 1] = "_")

RECURSIVE DigitsValue(_)
DigitsValue(u) ==
    IF Len(u) = 0 THEN 0
    ELSE LET front == SubSeq(u, 1, Len(u) - 1)
             last  == u[Len(u)]
         IN IF last = "_" THEN DigitsValue(front)
            ELSE 10 * DigitsValue(front) + DigitVal[last]

\* int(s), for a text that parses
IntOf(s) ==
    LET t == Strip(s) IN
        IF Len(t) > 0 /\ t[1] = "-" THEN 0 - DigitsValue(Unsigned(s))
        ELSE DigitsValue(Unsigned(s))

RECURSIVE NatToStr(_)
NatToStr(n) ==
    IF n < 10 THEN <<DigitChar[n]>>
    ELSE Append(NatToStr(n \div 10), DigitChar[n % 10])

\* str(n), as an f-string formats an integer
IntToStr(n) == IF n < 0 THEN <<"-">> \o NatToStr(0 - n) ELSE NatToStr(n)

----------------------------------------------------------------------------
(* Rows of the legacy table gebruiker                                      *)

Sentinel ==
    <<"O", "U", "D", "E", "S", "A", "N", "N", "E", "V", "A", "N", "D", "E", "R",
      "L", "I", "N", "D", "E", "N">>

\* result[0]
Ids == {7, 42}

\* result[3]: no label, a type tag alone, a low and a high GEWIS number, an
\* external account, an unknown type tag, and the placeholder account
Labels ==
    { <<>>,
      <<"g">>,
      <<"g", "5", "0", "0">>,
      <<"g", "1", "0", "0", "0">>,
      <<"e", "7">>,
      <<"x", "5", "0", "0", "0">>,
      <<"g">> \o Sentinel }

\* result[5] and result[6], in 1/UnitsPerEuro euro
Balances == {0 - 7, 2500, 10000}

Fines == {0, 2500}

Rows == [id : Ids, label : Labels, balance : Balances, fine : Fines]

\* The query orders by gebruikersnaam; nothing in the source ties that column
\* to result[3], so every sequence of rows is a possible result.
RowSeqs == UNION {[1..n -> Rows] : n \in 0..MaxRows}

----------------------------------------------------------------------------
(* Arithmetic                                                              *)

\* int(x) of the exact quotient n / d, d > 0: truncation toward zero
TruncDiv(n, d) == IF n >= 0 THEN n \div d ELSE 0 - ((0 - n) \div d)

\* balance = int((balance - fine)*100)
NetAmount(result) ==
    TruncDiv((result.balance - result.fine) * CentsPerEuro, UnitsPerEuro)

\* a slip: if balance > 0
IsCredit_Strict(balance) == balance > 0

\* if balance >= 0
IsCredit(balance) == balance >= 0

\* a slip: the sign is kept
Negate_Kept(balance) == balance

\* balance *= -1
Negate(balance) == balance * (0 - 1)

----------------------------------------------------------------------------
(* Output lines                                                            *)

BatchTime == "2022-07-01 00:00:00.000000"

Cleanup == [kind |-> "delete", table |-> "transfer", createdAt |-> BatchTime]

InsertStmt(fromId, toId, amount, lookup, column, value) ==
    [kind        |-> "insert",
     table       |-> "transfer",
     version     |-> 0,
     createdAt   |-> BatchTime,
     updatedAt   |-> BatchTime,
     fromId      |-> fromId,
     toId        |-> toId,
     amount      |-> IntToStr(amount),
     description |-> "Initial transfer from SuSOS",
     lookup      |-> lookup,
     column      |-> column,
     value       |-> value]

\* the two prints of the 'g' branch
GewisStmt(balance, account_number) ==
    IF IsCredit(balance)
    THEN InsertStmt("NULL", "g.userId", balance,
                    "gewis_user", "g.gewisId", account_number)
    ELSE InsertStmt("g.userId", "NULL", Negate(balance),
                    "gewis_user", "g.gewisId", account_number)

\* a slip: the 'e' branch pasted from the 'g' branch with its lookup unchanged
UserStmt_GewisLookup(balance, id) ==
    IF balance >= 0
    THEN InsertStmt("NULL", "g.userId", balance,
                    "gewis_user", "g.gewisId", IntToStr(id))
    ELSE InsertStmt("g.userId", "NULL", balance * (0 - 1),
                    "gewis_user", "g.gewisId", IntToStr(id))

\* the two prints of the 'e' branch
UserStmt(balance, id) ==
    IF IsCredit(balance)
    THEN InsertStmt("NULL", "u.id", balance, "user", "u.id", IntToStr(id))
    ELSE InsertStmt("u.id", "NULL", Negate(balance), "user", "u.id", IntToStr(id))

\* a slip: the low-number rule applied whatever the type tag
Excluded_AnyTag(label, account_number) ==
    \/ account_number = Sentinel
    \/ IntOf(account_number) < LowAccountLimit

\* a slip: the low-number rule left out
Excluded_SentinelOnly(label, account_number) == account_number = Sentinel

\* the second continue of the loop body
Excluded(label, account_number) ==
    \/ account_number = Sentinel
    \/ (IntOf(account_number) < LowAccountLimit /\ StartsWith(label, "g"))

\* a slip: else in place of elif result[3].startswith("e")
RowLines_Else(result) ==
    LET id             == result.id
        account_number == DropFirst(result.label)
    IN  IF ~ParsesAsInt(account_number) THEN <<>>
        ELSE IF Excluded(result.label, account_number) THEN <<>>
        ELSE LET balance == NetAmount(result) IN
             IF StartsWith(result.label, "g")
             THEN <<GewisStmt(balance, account_number)>>
             ELSE <<UserStmt(balance, id)>>

\* the lines one pass of the loop body prints for a row
RowLines(result) ==
    LET id             == result.id
        account_number == DropFirst(result.label)
    IN  IF ~ParsesAsInt(account_number) THEN <<>>
        ELSE IF Excluded(result.label, account_number) THEN <<>>
        ELSE LET balance == NetAmount(result) IN
             IF StartsWith(result.label, "g")
             THEN <<GewisStmt(balance, account_number)>>
             ELSE IF StartsWith(result.label, "e")
             THEN <<UserStmt(balance, id)>>
             ELSE <<>>

\* a slip: the newest lines first
Stdout_Newest(out, lines) == lines \o out

\* print: lines go to the end of standard output
Stdout(out, lines) == out \o lines

----------------------------------------------------------------------------
(* The script                                                              *)

Init ==
    /\ pc = "execute"
    /\ source = "open"
    /\ target = <<>>
    /\ results = <<>>
    /\ i = 0
    /\ output = <<>>

\* a slip: the cleanup statement printed before the query is sent
Execute_CleanupFirst ==
    /\ pc = "execute"
    /\ output' = output \o <<Cleanup>>
    /\ \/ (source' = "executed" /\ pc' = "fetchall")
       \/ (source' = source /\ pc' = "raised")
    /\ UNCHANGED <<target, results, i>>

\* source.execute("select * from gebruiker order by gebruikersnaam asc")
Execute ==
    /\ pc = "execute"
    /\ \/ (source' = "executed" /\ pc' = "fetchall")
       \/ (source' = source /\ pc' = "raised")
    /\ UNCHANGED <<target, results, i, output>>

\* results = source.fetchall()
Fetchall ==
    /\ pc = "fetchall"
    /\ \/ \E rows \in RowSeqs :
              /\ results' = rows
              /\ source' = "fetched"
              /\ pc' = "cleanup"
       \/ (pc' = "raised" /\ UNCHANGED <<source, results>>)
    /\ UNCHANGED <<target, i, output>>

\* a slip: the cleanup statement printed only when there are rows
PrintCleanup_IfRows ==
    /\ pc = "cleanup"
    /\ output' = IF Len(results) > 0 THEN output \o <<Cleanup>> ELSE output
    /\ pc' = "loop"
    /\ UNCHANGED <<source, target, results, i>>

\* print("DELETE FROM transfer where createdAt=...;")
PrintCleanup ==
    /\ pc = "cleanup"
    /\ output' = Stdout(output, <<Cleanup>>)
    /\ pc' = "loop"
    /\ UNCHANGED <<source, target, results, i>>

\* one pass of: for i, result in enumerate(results)
LoopStep ==
    /\ pc = "loop"
    /\ i < Len(results)
    /\ output' = Stdout(output, RowLines(results[i + 1]))
    /\ i' = i + 1
    /\ UNCHANGED <<pc, source, target, results>>

\* the loop is exhausted and sync_transfers returns
Return ==
    /\ pc = "loop"
    /\ i = Len(results)
    /\ pc' = "close"
    /\ UNCHANGED <<source, target, results, i, output>>

\* susos_cursor.close()
Close ==
    /\ pc = "close"
    /\ source' = "closed"
    /\ pc' = "exit"
    /\ UNCHANGED <<target, results, i, output>>

Next ==
    \/ Execute
    \/ Fetchall
    \/ PrintCleanup
    \/ LoopStep
    \/ Return
    \/ Close

Spec == Init /\ [][Next]_vars

----------------------------------------------------------------------------
(* Vocabulary of the properties                                            *)

Tag(row) == IF Len(row.label) = 0 THEN "" ELSE row.label[1]

Suffix(row) == IF Len(row.label) = 0 THEN <<>> ELSE Tail(row.label)

Abs(n) == IF n < 0 THEN 0 - n ELSE n

\* n / d rounded to the nearest integer, a tie to the even one (round), d > 0
RoundDiv(n, d) ==
    LET q == n \div d
        r == n % d
    IN  IF 2 * r < d THEN q
        ELSE IF 2 * r > d THEN q + 1
        ELSE IF q % 2 = 0 THEN q ELSE q + 1

\* round((balance - fine) * 100)
RoundedNet(row) == RoundDiv((row.balance - row.fine) * 100, 1000)

\* the cleanup statement has been printed
Started == pc \in {"loop", "close", "exit"}

\* the loop is about to consume results[i + 1]
Processing == pc = "loop" /\ i < Len(results)

Inserts == {k \in 1..Len(output) : output[k].kind = "insert"}

Deletes == {k \in 1..Len(output) : output[k].kind = "delete"}

PlainNumber(text) == Len(text) > 0 /\ \A k \in 1..Len(text) : text[k] \in Digits

\* the row is skipped by the numeric filter or by the low-numbered-'g' rule
Filtered(row) ==
    \/ ~ParsesAsInt(Suffix(row))
    \/ Suffix(row) = Sentinel
    \/ (IntOf(Suffix(row)) < 1000 /\ Tag(row) = "g")

ExampleRow ==
    [id |-> 42, label |-> <<"g", "5", "0", "0">>, balance |-> 10000, fine |-> 2500]

----------------------------------------------------------------------------
(* Properties                                                              *)

\* C1: once the rows are fetched, the output holds the cleanup statement
\* exactly once, as its first line, and every other line is an insert.
C1_CleanupFirstOnce ==
    Started =>
        /\ Len(output) >= 1
        /\ output[1] = Cleanup
        /\ Deletes = {1}
        /\ Inserts = 2..Len(output)

C1_Witness ==
    /\ pc = "exit"
    /\ Len(results) = 2
    /\ Len(output) = 3
    /\ output[1] = Cleanup

\* C2 as claimed: the number of insert statements equals the number of rows
\* consumed whose suffix parses and that the sentinel / low-'g' rule keeps,
\* whatever their type tag.
C2_OnePerUnfilteredRow ==
    Started =>
        Cardinality(Inserts) = Cardinality({k \in 1..i : ~Filtered(results[k])})

\* C2 amended: the number of insert statements equals the number of rows
\* consumed that are not filtered and whose type tag is 'g' or 'e'.
C2_OnePerTaggedRow ==
    Started =>
        Cardinality(Inserts) =
            Cardinality({k \in 1..i :
                ~Filtered(results[k]) /\ Tag(results[k]) \in {"g", "e"}})

C2_Witness ==
    /\ pc = "exit"
    /\ Len(results) = 2
    /\ Tag(results[1]) = "x" /\ ~Filtered(results[1])
    /\ Tag(results[2]) = "e" /\ ~Filtered(results[2])
    /\ Cardinality(Inserts) = 1

\* C3 as claimed: the amount of a statement printed for a row is the absolute
\* value of round((balance - fine) * 100).
C3_AmountIsRounded ==
    [][(Processing /\ Len(output') = Len(output) + 1) =>
           IntOf(output'[Len(output')].amount) = Abs(RoundedNet(results[i + 1]))]_vars

C5_AmountNonNegative ==
    \A k \in Inserts :
        /\ PlainNumber(output[k].amount)
        /\ IntOf(output[k].amount) >= 0

C5_Witness ==
    /\ pc = "loop"
    /\ i = 1
    /\ results[1].balance - results[1].fine < 0
    /\ NetAmount(results[1]) < 0
    /\ Len(output) = 2
    /\ IntOf(output[2].amount) > 0

\* C6: a row whose suffix does not parse as an integer (the empty suffix and
\* the sentinel included), or whose number is below 1000 with tag 'g', prints
\* nothing and the loop moves on to the next row with nothing else changed;
\* an 'e' row with a number below 1000 prints its statement.
C6_SkippedRows ==
    [][Processing =>
           LET row == results[i + 1] IN
               /\ (\/ ~ParsesAsInt(Suffix(row))
                   \/ Suffix(row) \in {<<>>, Sentinel}
                   \/ (IntOf(Suffix(row)) < 1000 /\ Tag(row) = "g"))
                  => /\ output' = output
                     /\ i' = i + 1
                     /\ pc' = "loop"
                     /\ UNCHANGED <<source, target, results>>
               /\ (/\ Tag(row) = "e"
                   /\ ParsesAsInt(Suffix(row))
                   /\ IntOf(Suffix(row)) < 1000)
                  => Len(output') = Len(output) + 1]_vars

C6_Witness ==
    /\ pc = "exit"
    /\ Len(results) = 2
    /\ Suffix(results[1]) = Sentinel
    /\ Tag(results[2]) = "e" /\ IntOf(Suffix(results[2])) < 1000
    /\ Len(output) = 2
    /\ output[2].lookup = "user"

\* C7 as claimed: the row (42, "g500", 10.00, 2.50) prints one statement with
\* fromId NULL, toId the user found by gewisId = 500, and amount 750.
C7_ExamplePrints ==
    [][(Processing /\ results[i + 1] = ExampleRow) =>
           /\ Len(output') = Len(output) + 1
           /\ output'[Len(output')].fromId = "NULL"
           /\ output'[Len(output')].toId = "g.userId"
           /\ output'[Len(output')].column = "g.gewisId"
           /\ output'[Len(output')].value = <<"5", "0", "0">>
           /\ output'[Len(output')].amount = <<"7", "5", "0">>]_vars

\* C7 amended: the row (42, "g500", 10.00, 2.50) prints nothing, its number
\* 500 being below 1000 with tag 'g'; its net amount is 750.
C7_ExampleSkipped ==
    [][(Processing /\ results[i + 1] = ExampleRow) =>
           /\ output' = output
           /\ NetAmount(results[i + 1]) = 750]_vars

C7_Witness ==
    /\ pc = "exit"
    /\ results = <<ExampleRow>>
    /\ output = <<Cleanup>>

\* C8: a statement printed for a 'g' row looks up gewis_user by gewisId equal
\* to the row's account number, one printed for an 'e' row looks up user by id
\* equal to the row's id, and a row with any other tag prints nothing.
C8_Counterparty ==
    [][Processing =>
           LET row  == results[i + 1]
               line == output'[Len(output')]
           IN  /\ Tag(row) \notin {"g", "e"} => output' = output
               /\ (Tag(row) = "g" /\ Len(output') = Len(output) + 1)
                  => /\ line.lookup = "gewis_user"
                     /\ line.column = "g.gewisId"
                     /\ line.value = Suffix(row)
                     /\ {line.fromId, line.toId} = {"NULL", "g.userId"}
               /\ (Tag(row) = "e" /\ Len(output') = Len(output) + 1)
                  => /\ line.lookup = "user"
                     /\ line.column = "u.id"
                     /\ line.value = IntToStr(row.id)
                     /\ {line.fromId, line.toId} = {"NULL", "u.id"}]_vars

C8_Witness ==
    /\ pc = "exit"
    /\ Len(results) = 2
    /\ Len(output) = 3
    /\ Tag(results[1]) = "g" /\ results[1].id = 7
    /\ output[2].value = <<"1", "0", "0", "0">>
    /\ Tag(results[2]) = "e" /\ results[2].id = 42
    /\ output[3].value = <<"4", "2">>

\* how many steps the script can still take
StepsLeft ==
    CASE pc = "execute"  -> MaxRows + 5
      [] pc = "fetchall" -> MaxRows + 4
      [] pc = "cleanup"  -> Len(results) + 3
      [] pc = "loop"     -> (Len(results) - i) + 2
      [] pc = "close"    -> 1
      [] OTHER           -> 0

\* C9: every step keeps the lines already printed and adds at most one, at the
\* end; a line added by the loop belongs to the row being consumed, rows are
\* consumed in input order, one at a time; the output never holds more than
\* 1 + (rows consumed) lines; and every step brings the end of the run nearer.
C9_OrderedAppendOnly ==
    [][/\ Len(output') \in {Len(output), Len(output) + 1}
       /\ SubSeq(output', 1, Len(output)) = output
       /\ Processing =>
              /\ i' = i + 1
              /\ results' = results
              /\ Len(output') = Len(output) + 1 =>
                     output'[Len(output')].value \in
                         {Suffix(results[i + 1]), IntToStr(results[i + 1].id)}
       /\ ~Processing => i' = i
       /\ Len(output') <= 1 + i'
       /\ i' <= Len(results')
       /\ StepsLeft' < StepsLeft]_vars

C9_Witness ==
    /\ pc = "exit"
    /\ Len(results) = 2
    /\ Len(output) = 3
    /\ output[2].value = Suffix(results[1])
    /\ output[3].value = IntToStr(results[2].id)
    /\ output[2].value # output[3].value

\* C10: when the query or the fetch fails the script stops there with nothing
\* printed, and in every state of every run no call has been made on the
\* target handle.
C10_ReadFailure ==
    /\ pc = "raised" => (output = <<>> /\ ~ENABLED Next)
    /\ target = <<>>

C10_Witness ==
    /\ pc = "raised"
    /\ source = "executed"
    /\ output = <<>>

====
